---- MODULE Spec2Model ----
(***************************************************************************)
(* The like / match / chat core of kyupi-kyupi-backend.                    *)
(*                                                                         *)
(* State: the Postgres tables likes and matches, the MongoDB collection    *)
(* messages, and the bag of HTTP requests, one record per request holding  *)
(* the handler's local variables and its response.  Every handler is split *)
(* at its storage calls.  The code between two storage calls touches only  *)
(* request-local data, so it is folded into the step of the call after     *)
(* it (the first step also holds the handler's prologue, the last one the  *)
(* c.JSON that answers the request).  Requests run on independently        *)
(* scheduled goroutines, so their steps interleave freely.                 *)
(***************************************************************************)
EXTENDS Integers, Sequences, FiniteSets, Bags, TLC

VARIABLES likes, matches, messages, reqs

vars == <<likes, matches, messages, reqs>>

\* Number of HTTP requests the server handles in one behaviour.
MaxRequests == 2

(***************************************************************************)
(* Identities.  A uuid.UUID is a byte array; the model keeps two bytes.    *)
(***************************************************************************)
UserA == <<0, 154>>
UserB == <<0, 171>>
UserC == <<16, 0>>
Users == {UserA, UserB, UserC}

\* Identities beside the users: ids that differ from one another or from a
\* user in the first byte only, in the last byte only, and by a digit
\* against a letter.
OtherIDs == {<<0, 0>>, <<9, 171>>, <<10, 0>>, <<255, 255>>}

\* uuid.Nil, the zero value of a models.Match ID before the INSERT fills it.
NilID == 0

\* The ASCII code of one lower-case hexadecimal digit, as encoding/hex emits.
HexDigit(n) == IF n < 10 THEN 48 + n ELSE 87 + n

\* uuid.UUID.String(): every byte as two lower-case hex digits (the dashes
\* of the real form sit at fixed places and are left out).
RECURSIVE UUIDString(_)
UUIDString(u) ==
  IF u = <<>> THEN <<>>
  ELSE <<HexDigit(Head(u) \div 16), HexDigit(Head(u) % 16)>> \o UUIDString(Tail(u))

\* Go's s > t on strings: byte-wise lexicographic.
RECURSIVE StringGreater(_, _)
StringGreater(s, t) ==
  IF s = <<>> THEN FALSE
  ELSE IF t = <<>> THEN TRUE
  ELSE IF Head(s) # Head(t) THEN Head(s) > Head(t)
  ELSE StringGreater(Tail(s), Tail(t))

\* Postgres' uuid < uuid: memcmp of the bytes.
RECURSIVE UuidLess(_, _)
UuidLess(u, v) ==
  IF v = <<>> THEN FALSE
  ELSE IF u = <<>> THEN TRUE
  ELSE IF Head(u) # Head(v) THEN Head(u) < Head(v)
  ELSE UuidLess(Tail(u), Tail(v))

(***************************************************************************)
(* The relational store.  `up` is whether the database answers the call;   *)
(* a call that is not answered fails with a driver error.                  *)
(***************************************************************************)
LikeStatuses == {"like", "pass"}

\* INSERT INTO likes ... ON CONFLICT (user_id, target_user_id) DO UPDATE.
LikesInsert_Upsert(tbl, user, target, status, up) ==
  IF ~up THEN [err |-> "unavailable", rows |-> tbl]
  ELSE IF status \notin LikeStatuses
    THEN [err |-> "likes_status_check", rows |-> tbl]
  ELSE [err |-> "nil",
        rows |-> {l \in tbl : ~(l.user_id = user /\ l.target_user_id = target)}
                   \cup {[user_id |-> user, target_user_id |-> target,
                           status |-> status]}]

\* INSERT INTO likes without UNIQUE(user_id, target_user_id).
LikesInsert_NoUnique(tbl, user, target, status, up) ==
  IF ~up THEN [err |-> "unavailable", rows |-> tbl]
  ELSE IF status \notin LikeStatuses
    THEN [err |-> "likes_status_check", rows |-> tbl]
  ELSE [err |-> "nil",
        rows |-> tbl \cup {[user_id |-> user, target_user_id |-> target,
                            status |-> status]}]

\* INSERT INTO likes: UNIQUE(user_id, target_user_id), CHECK on status.
LikesInsert(tbl, user, target, status, up) ==
  IF ~up THEN [err |-> "unavailable", rows |-> tbl]
  ELSE IF status \notin LikeStatuses
    THEN [err |-> "likes_status_check", rows |-> tbl]
  ELSE IF \E l \in tbl : l.user_id = user /\ l.target_user_id = target
    THEN [err |-> "likes_user_id_target_user_id_key", rows |-> tbl]
  ELSE [err |-> "nil",
        rows |-> tbl \cup {[user_id |-> user, target_user_id |-> target,
                            status |-> status]}]

\* gen_random_uuid() for a new matches row: an id no row has.
NewMatchID(tbl) == Cardinality(tbl) + 1

\* created_at TIMESTAMP NOT NULL DEFAULT NOW(): the time of the INSERT, later
\* than the time of every row already in the table.
Now(tbl) == Cardinality(tbl) + 1

\* The zero time.Time of a models.Match the INSERT has not filled.
ZeroTime == 0

\* MatchesInsert on a table declared without UNIQUE(user1_id, user2_id).
MatchesInsert_NoUnique(tbl, u1, u2, up) ==
  IF ~up THEN [err |-> "unavailable", id |-> NilID, at |-> ZeroTime, rows |-> tbl]
  ELSE IF ~UuidLess(u1, u2)
    THEN [err |-> "matches_check", id |-> NilID, at |-> ZeroTime, rows |-> tbl]
  ELSE [err |-> "nil", id |-> NewMatchID(tbl), at |-> Now(tbl),
        rows |-> tbl \cup {[id |-> NewMatchID(tbl), user1_id |-> u1,
                            user2_id |-> u2, created_at |-> Now(tbl)]}]

\* MatchesInsert on a table declared without CHECK (user1_id < user2_id).
MatchesInsert_NoCheck(tbl, u1, u2, up) ==
  IF ~up THEN [err |-> "unavailable", id |-> NilID, at |-> ZeroTime, rows |-> tbl]
  ELSE IF \E m \in tbl : m.user1_id = u1 /\ m.user2_id = u2
    THEN [err |-> "matches_user1_id_user2_id_key", id |-> NilID, at |-> ZeroTime,
          rows |-> tbl]
  ELSE [err |-> "nil", id |-> NewMatchID(tbl), at |-> Now(tbl),
        rows |-> tbl \cup {[id |-> NewMatchID(tbl), user1_id |-> u1,
                            user2_id |-> u2, created_at |-> Now(tbl)]}]

\* INSERT INTO matches: CHECK (user1_id < user2_id), UNIQUE(user1_id, user2_id).
MatchesInsert(tbl, u1, u2, up) ==
  IF ~up THEN [err |-> "unavailable", id |-> NilID, at |-> ZeroTime, rows |-> tbl]
  ELSE IF ~UuidLess(u1, u2)
    THEN [err |-> "matches_check", id |-> NilID, at |-> ZeroTime, rows |-> tbl]
  ELSE IF \E m \in tbl : m.user1_id = u1 /\ m.user2_id = u2
    THEN [err |-> "matches_user1_id_user2_id_key", id |-> NilID, at |-> ZeroTime,
          rows |-> tbl]
  ELSE [err |-> "nil", id |-> NewMatchID(tbl), at |-> Now(tbl),
        rows |-> tbl \cup {[id |-> NewMatchID(tbl), user1_id |-> u1,
                            user2_id |-> u2, created_at |-> Now(tbl)]}]

(***************************************************************************)
(* LikeRepo                                                                *)
(***************************************************************************)
\* LikeRepo.Create: the unique-constraint error becomes ErrLikeAlreadyExists.
LikeRepoCreate(tbl, user, target, status, up) ==
  LET res == LikesInsert(tbl, user, target, status, up)
  IN [err  |-> IF res.err = "likes_user_id_target_user_id_key"
               THEN "ErrLikeAlreadyExists" ELSE res.err,
      rows |-> res.rows]

\* CheckMutualLike with the status condition left out of the WHERE clause.
CheckMutualLike_AnyStatus(tbl, userID, targetUserID, up) ==
  IF ~up THEN [err |-> "unavailable", exists |-> FALSE]
  ELSE [err |-> "nil",
        exists |-> \E l \in tbl : /\ l.user_id = targetUserID
                                  /\ l.target_user_id = userID]

\* CheckMutualLike comparing status with a value no row holds.
CheckMutualLike_WrongStatus(tbl, userID, targetUserID, up) ==
  IF ~up THEN [err |-> "unavailable", exists |-> FALSE]
  ELSE [err |-> "nil",
        exists |-> \E l \in tbl : /\ l.user_id = targetUserID
                                  /\ l.target_user_id = userID
                                  /\ l.status = "liked"]

\* LikeRepo.CheckMutualLike(userID, targetUserID): whether targetUserID has a
\* row toward userID with status 'like'.
CheckMutualLike(tbl, userID, targetUserID, up) ==
  IF ~up THEN [err |-> "unavailable", exists |-> FALSE]
  ELSE [err |-> "nil",
        exists |-> \E l \in tbl : /\ l.user_id = targetUserID
                                  /\ l.target_user_id = userID
                                  /\ l.status = "like"]

(***************************************************************************)
(* MatchRepo                                                               *)
(***************************************************************************)
\* NormalizeOrder with the swap forgotten.
NormalizeOrder_NoSwap(user1ID, user2ID) == <<user1ID, user2ID>>

\* user1ID.String() > user2ID.String() for every two identities, computed
\* once: the comparison is a function of the two ids alone.
StringIsGreater ==
  [u \in Users \cup OtherIDs |->
     [v \in Users \cup OtherIDs |-> StringGreater(UUIDString(u), UUIDString(v))]]

\* The swap both MatchRepo.Create and MatchRepo.Exists start with.
NormalizeOrder(user1ID, user2ID) ==
  IF StringIsGreater[user1ID][user2ID]
  THEN <<user2ID, user1ID>> ELSE <<user1ID, user2ID>>

\* MatchRepo.Create: the caller's struct gets the normalized ids whatever the
\* INSERT answers, and the new id only when it succeeds.
MatchRepoCreate(tbl, user1ID, user2ID, up) ==
  LET p   == NormalizeOrder(user1ID, user2ID)
      res == MatchesInsert(tbl, p[1], p[2], up)
  IN [err   |-> IF res.err = "matches_user1_id_user2_id_key"
                THEN "ErrMatchAlreadyExists" ELSE res.err,
      match |-> [id |-> res.id, user1_id |-> p[1], user2_id |-> p[2],
                 created_at |-> res.at],
      rows  |-> res.rows]

\* MatchRepo.Exists looking the pair up in the order the caller gave.
MatchRepoExists_NoNormalize(tbl, user1ID, user2ID, up) ==
  IF ~up THEN [err |-> "unavailable", exists |-> FALSE]
  ELSE [err |-> "nil",
        exists |-> \E m \in tbl : m.user1_id = user1ID /\ m.user2_id = user2ID]

\* MatchRepo.Exists swapping when the first id is the lower one.
MatchRepoExists_HighFirst(tbl, user1ID, user2ID, up) ==
  LET p == NormalizeOrder(user2ID, user1ID)
  IN IF ~up THEN [err |-> "unavailable", exists |-> FALSE]
     ELSE [err |-> "nil",
           exists |-> \E m \in tbl : m.user1_id = p[2] /\ m.user2_id = p[1]]

\* MatchRepo.Exists with the WHERE clause left out of the SELECT.
MatchRepoExists_AnyRow(tbl, user1ID, user2ID, up) ==
  IF ~up THEN [err |-> "unavailable", exists |-> FALSE]
  ELSE [err |-> "nil", exists |-> tbl # {}]

\* MatchRepo.Exists
MatchRepoExists(tbl, user1ID, user2ID, up) ==
  LET p == NormalizeOrder(user1ID, user2ID)
  IN IF ~up THEN [err |-> "unavailable", exists |-> FALSE]
     ELSE [err |-> "nil",
           exists |-> \E m \in tbl : m.user1_id = p[1] /\ m.user2_id = p[2]]

\* The rows of `rows` by created_at ascending (ORDER BY created_at ASC).
RECURSIVE ByCreatedAtAsc(_)
ByCreatedAtAsc(rows) ==
  IF rows = {} THEN <<>>
  ELSE LET oldest == CHOOSE m \in rows : \A o \in rows : m.created_at <= o.created_at
       IN <<oldest>> \o ByCreatedAtAsc(rows \ {oldest})

\* The rows of `rows` by created_at descending (ORDER BY created_at DESC).
RECURSIVE ByCreatedAtDesc(_)
ByCreatedAtDesc(rows) ==
  IF rows = {} THEN <<>>
  ELSE LET newest == CHOOSE m \in rows : \A o \in rows : o.created_at <= m.created_at
       IN <<newest>> \o ByCreatedAtDesc(rows \ {newest})

\* MatchRepo.GetByUserID with the user2_id alternative left out of the WHERE.
MatchRepoGetByUserID_User1Only(tbl, userID, up) ==
  IF ~up THEN [err |-> "unavailable", list |-> <<>>]
  ELSE [err |-> "nil",
        list |-> ByCreatedAtDesc({m \in tbl : m.user1_id = userID})]

\* MatchRepo.GetByUserID
MatchRepoGetByUserID(tbl, userID, up) ==
  IF ~up THEN [err |-> "unavailable", list |-> <<>>]
  ELSE [err |-> "nil",
        list |-> ByCreatedAtDesc({m \in tbl : m.user1_id = userID \/ m.user2_id = userID})]

(***************************************************************************)
(* Requests                                                                *)
(***************************************************************************)
NoUser == <<>>
NoMatch == [id |-> NilID, user1_id |-> NoUser, user2_id |-> NoUser,
            created_at |-> ZeroTime]

\* A request as it enters its handler: nothing called, nothing answered.
NewReq ==
  [kind |-> "none", actor |-> NoUser, target |-> NoUser, decision |-> "",
   matchID |-> NilID, pc |-> "entry", last |-> "", err |-> "nil",
   mutualLike |-> FALSE, matchExists |-> FALSE, match |-> NoMatch,
   code |-> 0, matched |-> FALSE, respMatch |-> NoMatch, respMessages |-> <<>>,
   list |-> <<>>, todo |-> <<>>, respEntries |-> <<>>]

\* The server takes another request.
CanArrive == BagCardinality(reqs) < MaxRequests

\* The request pool after a request arrived and ran up to `req`.
Arrive(req) == reqs (+) SetToBag({req})

\* The request pool after the request in state `old` ran up to `new`.
Step(old, new) == (reqs (-) SetToBag({old})) (+) SetToBag({new})

\* The requests in the pool.
Reqs == BagToSet(reqs)

\* The database a server starts on: a new one, the one an earlier run left
\* in which UserA liked UserB, UserB liked UserA back and the match was made,
\* or the one in which UserC and UserA then did the same.
\* The handlers' own storage calls compute it.
EmptyDB == [likes |-> {}, matches |-> {}]
MatchedDB ==
  LET l1 == LikeRepoCreate({}, UserA, UserB, "like", TRUE).rows
      l2 == LikeRepoCreate(l1, UserB, UserA, "like", TRUE).rows
  IN [likes |-> l2, matches |-> MatchRepoCreate({}, UserB, UserA, TRUE).rows]
TwoMatchesDB ==
  LET l1 == LikeRepoCreate(MatchedDB.likes, UserC, UserA, "like", TRUE).rows
      l2 == LikeRepoCreate(l1, UserA, UserC, "like", TRUE).rows
  IN [likes |-> l2,
      matches |-> MatchRepoCreate(MatchedDB.matches, UserA, UserC, TRUE).rows]
StartDBs == {EmptyDB, MatchedDB, TwoMatchesDB}

Init ==
  /\ \E db \in StartDBs : likes = db.likes /\ matches = db.matches
  /\ messages = <<>>
  /\ reqs = EmptyBag

\* c.JSON(code, ...) followed by return.
Respond(req, code) == [req EXCEPT !.pc = "done", !.code = code]

(***************************************************************************)
(* LikeHandler.CreateLike                                                  *)
(***************************************************************************)
\* From the handler's entry to the return of likeRepo.Create.
CreateLikeBegin(userID, targetUserID, status, up) ==
  /\ CanArrive
  /\ LET req == [NewReq EXCEPT !.kind = "like", !.actor = userID,
                               !.target = targetUserID, !.decision = status]
     IN IF userID = targetUserID
        THEN /\ reqs' = Arrive(Respond(req, 400))
             /\ UNCHANGED <<likes, matches, messages>>
        ELSE LET res  == LikeRepoCreate(likes, userID, targetUserID, status, up)
                 req1 == [req EXCEPT !.last = "likeRepo.Create", !.err = res.err]
             IN /\ likes' = res.rows
                /\ reqs' = Arrive(
                     IF res.err = "ErrLikeAlreadyExists" THEN Respond(req1, 409)
                     ELSE IF res.err # "nil" THEN Respond(req1, 500)
                     ELSE IF status = "like" THEN [req1 EXCEPT !.pc = "check"]
                     ELSE Respond(req1, 201))
                /\ UNCHANGED <<matches, messages>>

\* likeRepo.CheckMutualLike and what follows it up to the next storage call.
CreateLikeCheck(up) ==
  \E req \in Reqs :
    /\ req.pc = "check"
    /\ LET res  == CheckMutualLike(likes, req.actor, req.target, up)
           req1 == [req EXCEPT !.last = "likeRepo.CheckMutualLike",
                               !.err = res.err, !.mutualLike = res.exists]
       IN reqs' = Step(req,
            IF res.err # "nil" THEN Respond(req1, 201)
            ELSE IF res.exists THEN [req1 EXCEPT !.pc = "exists"]
            ELSE Respond(req1, 201))
    /\ UNCHANGED <<likes, matches, messages>>

\* CreateLike reporting the match it finds already present as matched=true.
CreateLikeExists_ReportsExisting(up) ==
  \E req \in Reqs :
    /\ req.pc = "exists"
    /\ LET res  == MatchRepoExists(matches, req.actor, req.target, up)
           req1 == [req EXCEPT !.last = "matchRepo.Exists",
                               !.err = res.err, !.matchExists = res.exists]
       IN reqs' = Step(req,
            IF res.err # "nil" THEN Respond(req1, 201)
            ELSE IF ~res.exists THEN [req1 EXCEPT !.pc = "create"]
            ELSE Respond([req1 EXCEPT !.matched = TRUE], 201))
    /\ UNCHANGED <<likes, matches, messages>>

\* matchRepo.Exists and what follows it up to the next storage call.
CreateLikeExists(up) ==
  \E req \in Reqs :
    /\ req.pc = "exists"
    /\ LET res  == MatchRepoExists(matches, req.actor, req.target, up)
           req1 == [req EXCEPT !.last = "matchRepo.Exists",
                               !.err = res.err, !.matchExists = res.exists]
       IN reqs' = Step(req,
            IF res.err # "nil" THEN Respond(req1, 201)
            ELSE IF ~res.exists THEN [req1 EXCEPT !.pc = "create"]
            ELSE Respond(req1, 201))
    /\ UNCHANGED <<likes, matches, messages>>

\* CreateLike attaching the match whatever matchRepo.Create answered.
CreateLikeCreate_ErrorIgnored(up) ==
  \E req \in Reqs :
    /\ req.pc = "create"
    /\ LET res  == MatchRepoCreate(matches, req.actor, req.target, up)
           req1 == [req EXCEPT !.last = "matchRepo.Create",
                               !.err = res.err, !.match = res.match]
       IN /\ matches' = res.rows
          /\ reqs' = Step(req, Respond([req1 EXCEPT !.matched = TRUE,
                                                    !.respMatch = res.match], 201))
    /\ UNCHANGED <<likes, messages>>

\* matchRepo.Create and the response.
CreateLikeCreate(up) ==
  \E req \in Reqs :
    /\ req.pc = "create"
    /\ LET res  == MatchRepoCreate(matches, req.actor, req.target, up)
           req1 == [req EXCEPT !.last = "matchRepo.Create",
                               !.err = res.err, !.match = res.match]
       IN /\ matches' = res.rows
          /\ reqs' = Step(req,
               IF res.err # "nil" THEN Respond(req1, 201)
               ELSE Respond([req1 EXCEPT !.matched = TRUE,
                                         !.respMatch = res.match], 201))
    /\ UNCHANGED <<likes, messages>>

(***************************************************************************)
(* PassHandler.CreatePass                                                  *)
(***************************************************************************)
\* CreatePass with the self check left out.
CreatePass_NoSelfCheck(userID, targetUserID, up) ==
  /\ CanArrive
  /\ LET req  == [NewReq EXCEPT !.kind = "pass", !.actor = userID,
                                !.target = targetUserID, !.decision = "pass"]
         res  == LikeRepoCreate(likes, userID, targetUserID, "pass", up)
         req1 == [req EXCEPT !.last = "likeRepo.Create", !.err = res.err]
     IN /\ likes' = res.rows
        /\ reqs' = Arrive(
             IF res.err = "ErrLikeAlreadyExists" THEN Respond(req1, 409)
             ELSE IF res.err # "nil" THEN Respond(req1, 500)
             ELSE Respond(req1, 201))
        /\ UNCHANGED <<matches, messages>>

\* The whole handler: its one storage call is likeRepo.Create.
CreatePass(userID, targetUserID, up) ==
  /\ CanArrive
  /\ LET req == [NewReq EXCEPT !.kind = "pass", !.actor = userID,
                               !.target = targetUserID, !.decision = "pass"]
     IN IF userID = targetUserID
        THEN /\ reqs' = Arrive(Respond(req, 400))
             /\ UNCHANGED <<likes, matches, messages>>
        ELSE LET res  == LikeRepoCreate(likes, userID, targetUserID, "pass", up)
                 req1 == [req EXCEPT !.last = "likeRepo.Create", !.err = res.err]
             IN /\ likes' = res.rows
                /\ reqs' = Arrive(
                     IF res.err = "ErrLikeAlreadyExists" THEN Respond(req1, 409)
                     ELSE IF res.err # "nil" THEN Respond(req1, 500)
                     ELSE Respond(req1, 201))
                /\ UNCHANGED <<matches, messages>>

(***************************************************************************)
(* MessageRepo and ChatHandler.SendMessage                                 *)
(***************************************************************************)
\* MessageRepo.Create as a ReplaceOne with upsert on match_id: the document
\* takes the place of the match's earlier ones.
MessageRepoCreate_Replace(coll, matchID, senderID, receiverID, now, up) ==
  IF ~up THEN [err |-> "unavailable", docs |-> coll]
  ELSE [err |-> "nil",
        docs |-> Append(SelectSeq(coll, LAMBDA d : d.match_id # matchID),
                        [match_id |-> matchID, sender_id |-> senderID,
                         receiver_id |-> receiverID, created_at |-> now])]

\* What time.Now() may read in MessageRepo.Create, on a scale whose 1 is the
\* first document's time. Another goroutine may read the clock and insert
\* between this goroutine's reading and its InsertOne, so the reading is
\* later than the time of every document stored, or earlier than them all;
\* a BSON datetime keeps milliseconds, so the reading as stored can also be
\* the created_at of a document already there.
ClockReadings(coll) ==
  IF coll = <<>> THEN {1}
  ELSE {Len(coll) + 1, 0 - Len(coll)}
         \cup {coll[i].created_at : i \in 1..Len(coll)}

\* MessageRepo.Create: CreatedAt is set to the clock's reading and InsertOne
\* appends the document.
MessageRepoCreate(coll, matchID, senderID, receiverID, now, up) ==
  IF ~up THEN [err |-> "unavailable", docs |-> coll]
  ELSE [err |-> "nil",
        docs |-> Append(coll, [match_id |-> matchID, sender_id |-> senderID,
                               receiver_id |-> receiverID, created_at |-> now])]

\* The match ids a client names: the first row's id and an id of another row.
MatchIDs == {1, 2}

\* SendMessage with a denial that tells a sender the receiver has liked it:
\* 409 in place of 403 when the receiver's like of the sender is on record.
SendMessageBegin_TellingDenial(userID, receiverID, matchID, up) ==
  /\ CanArrive
  /\ LET req  == [NewReq EXCEPT !.kind = "send", !.actor = userID,
                                !.target = receiverID, !.matchID = matchID]
         res  == MatchRepoExists(matches, userID, receiverID, up)
         req1 == [req EXCEPT !.last = "matchRepo.Exists",
                             !.err = res.err, !.matchExists = res.exists]
     IN reqs' = Arrive(
          IF res.err # "nil" THEN Respond(req1, 500)
          ELSE IF ~res.exists
            THEN IF CheckMutualLike(likes, userID, receiverID, TRUE).exists
                 THEN Respond(req1, 409) ELSE Respond(req1, 403)
          ELSE [req1 EXCEPT !.pc = "insert"])
  /\ UNCHANGED <<likes, matches, messages>>

\* From the handler's entry to the return of matchRepo.Exists.
SendMessageBegin(userID, receiverID, matchID, up) ==
  /\ CanArrive
  /\ LET req  == [NewReq EXCEPT !.kind = "send", !.actor = userID,
                                !.target = receiverID, !.matchID = matchID]
         res  == MatchRepoExists(matches, userID, receiverID, up)
         req1 == [req EXCEPT !.last = "matchRepo.Exists",
                             !.err = res.err, !.matchExists = res.exists]
     IN reqs' = Arrive(
          IF res.err # "nil" THEN Respond(req1, 500)
          ELSE IF ~res.exists THEN Respond(req1, 403)
          ELSE [req1 EXCEPT !.pc = "insert"])
  /\ UNCHANGED <<likes, matches, messages>>

\* messageRepo.Create and the response.
SendMessageInsert(up) ==
  \E req \in Reqs, now \in ClockReadings(messages) :
    /\ req.pc = "insert"
    /\ LET res  == MessageRepoCreate(messages, req.matchID, req.actor, req.target,
                                     now, up)
           req1 == [req EXCEPT !.last = "messageRepo.Create", !.err = res.err]
       IN /\ messages' = res.docs
          /\ reqs' = Step(req,
               IF res.err # "nil" THEN Respond(req1, 500) ELSE Respond(req1, 201))
    /\ UNCHANGED <<likes, matches>>

(***************************************************************************)
(* ChatHandler.GetMessages                                                 *)
(***************************************************************************)
\* The documents in the order the cursor yields them, with no sort requested.
Unsorted(docs) == {docs}

\* SetSort on created_at ascending: the orders the cursor may yield docs in.
\* MongoDB fixes no order among documents of one created_at.
SortedByCreatedAt(docs) ==
  LET n     == Len(docs)
      perms == {f \in [1..n -> 1..n] :
                  /\ \A i \in 1..n, j \in 1..n : i # j => f[i] # f[j]
                  /\ \A i \in 1..n, j \in 1..n :
                       i < j => docs[f[i]].created_at <= docs[f[j]].created_at}
  IN {[i \in 1..n |-> docs[f[i]]] : f \in perms}

\* The BSON value of a uuid.UUID field of a stored document: the driver's
\* default registry writes a [16]byte as binary data.
BSONBinary(id) == <<"binData", id>>

\* The BSON value of uuid.String() in a filter: a string.
BSONString(id) == <<"string", id>>

\* MessageRepo.GetByMatchID: the answers Find may give. The filter compares
\* the stored match_id, binary data, with the string form of matchID; the
\* documents that pass come oldest first. Find and the cursor answer with an
\* empty list, never with mongo.ErrNoDocuments, when no document passes.
MessageRepoGetByMatchID(coll, matchID, up) ==
  IF ~up THEN {[err |-> "unavailable", list |-> <<>>]}
  ELSE {[err |-> "nil", list |-> list] :
          list \in SortedByCreatedAt(
                     SelectSeq(coll, LAMBDA d :
                                 BSONBinary(d.match_id) = BSONString(matchID)))}

\* The scan reduced to whether the requester has a match at all.
IsPartOfMatch_AnyMatch(list, matchID) ==
  Len(list) > 0

\* The scan of the requester's matches for the match id of the path.
IsPartOfMatch(list, matchID) ==
  \E i \in 1..Len(list) : list[i].id = matchID

\* From the handler's entry to the end of the scan of matchRepo.GetByUserID's
\* answer.
GetMessagesBegin(userID, matchID, up) ==
  /\ CanArrive
  /\ LET req  == [NewReq EXCEPT !.kind = "get", !.actor = userID,
                                !.matchID = matchID]
         res  == MatchRepoGetByUserID(matches, userID, up)
         req1 == [req EXCEPT !.last = "matchRepo.GetByUserID", !.err = res.err]
     IN reqs' = Arrive(
          IF res.err # "nil" THEN Respond(req1, 500)
          ELSE IF ~IsPartOfMatch(res.list, matchID) THEN Respond(req1, 403)
          ELSE [req1 EXCEPT !.pc = "query"])
  /\ UNCHANGED <<likes, matches, messages>>

\* messageRepo.GetByMatchID and the response.
GetMessagesQuery(up) ==
  \E req \in Reqs :
    /\ req.pc = "query"
    /\ \E res \in MessageRepoGetByMatchID(messages, req.matchID, up) :
       LET req1 == [req EXCEPT !.last = "messageRepo.GetByMatchID", !.err = res.err]
       IN reqs' = Step(req,
            IF res.err # "nil" THEN Respond(req1, 500)
            ELSE Respond([req1 EXCEPT !.respMessages = res.list], 200))
    /\ UNCHANGED <<likes, matches, messages>>

(***************************************************************************)
(* MatchHandler.GetMatches                                                 *)
(***************************************************************************)
\* UserRepo.GetByID of a user of the users table: no handler deletes a user,
\* so the row is there whenever the store answers.
UserRepoGetByID(id, up) ==
  IF ~up THEN [err |-> "unavailable", user |-> NoUser]
  ELSE [err |-> "nil", user |-> id]

\* The member of the match that is not the requester.
MatchedUserID(match, userID) ==
  IF match.user1_id = userID THEN match.user2_id ELSE match.user1_id

\* From the handler's entry to the return of matchRepo.GetByUserID; with no
\* match to look a user up for, to the response.
GetMatchesBegin(userID, up) ==
  /\ CanArrive
  /\ LET req  == [NewReq EXCEPT !.kind = "matches", !.actor = userID]
         res  == MatchRepoGetByUserID(matches, userID, up)
         req1 == [req EXCEPT !.last = "matchRepo.GetByUserID", !.err = res.err]
     IN reqs' = Arrive(
          IF res.err # "nil" THEN Respond(req1, 500)
          ELSE IF res.list = <<>> THEN Respond(req1, 200)
          ELSE [req1 EXCEPT !.pc = "user", !.list = res.list,
                            !.todo = res.list])
  /\ UNCHANGED <<likes, matches, messages>>

\* One turn of the loop: userRepo.GetByID for the next match, the entry
\* appended or the match skipped, and after the last match the response.
GetMatchesUser(up) ==
  \E req \in Reqs :
    /\ req.pc = "user"
    /\ LET match == Head(req.todo)
           res   == UserRepoGetByID(MatchedUserID(match, req.actor), up)
           req1  == [req EXCEPT !.last = "userRepo.GetByID", !.err = res.err,
                                !.todo = Tail(req.todo)]
           req2  == IF res.err # "nil" THEN req1
                    ELSE [req1 EXCEPT !.respEntries =
                            Append(req.respEntries,
                                   [id |-> match.id, matched_user |-> res.user,
                                    created_at |-> match.created_at])]
       IN reqs' = Step(req, IF req2.todo = <<>> THEN Respond(req2, 200) ELSE req2)
    /\ UNCHANGED <<likes, matches, messages>>

(***************************************************************************)
(* Requests that carry no authenticated identity                           *)
(***************************************************************************)
\* The handlers, by the kind of their requests.
Handlers == {"like", "pass", "send", "get", "matches"}

\* A handler that does not look at GetUserID's ok: it goes on with uuid.Nil,
\* makes its first storage call, finds nothing and answers as to a stranger.
Unauthenticated_OkIgnored(kind) ==
  /\ CanArrive
  /\ reqs' = Arrive(Respond([NewReq EXCEPT !.kind = kind,
                                            !.last = "matchRepo.GetByUserID"],
                            IF kind = "matches" THEN 200 ELSE 403))
  /\ UNCHANGED <<likes, matches, messages>>

\* middleware.GetUserID answers !ok: every handler responds 401 and returns.
Unauthenticated(kind) ==
  /\ CanArrive
  /\ reqs' = Arrive(Respond([NewReq EXCEPT !.kind = kind], 401))
  /\ UNCHANGED <<likes, matches, messages>>

(***************************************************************************)
(* The system                                                              *)
(***************************************************************************)
Next ==
  \E up \in BOOLEAN :
    \/ \E u \in Users, t \in Users, s \in LikeStatuses : CreateLikeBegin(u, t, s, up)
    \/ CreateLikeCheck(up)
    \/ CreateLikeExists(up)
    \/ CreateLikeCreate(up)
    \/ \E u \in Users, t \in Users : CreatePass(u, t, up)
    \/ \E u \in Users, t \in Users, m \in MatchIDs : SendMessageBegin(u, t, m, up)
    \/ SendMessageInsert(up)
    \/ \E u \in Users, m \in MatchIDs : GetMessagesBegin(u, m, up)
    \/ GetMessagesQuery(up)

Spec == Init /\ [][Next]_vars

\* A handler that has made a storage call goes on: the call returns, with a
\* row or with an error, and the goroutine is scheduled again.
Continue ==
  \E up \in BOOLEAN :
    \/ CreateLikeCheck(up)
    \/ CreateLikeExists(up)
    \/ CreateLikeCreate(up)
    \/ SendMessageInsert(up)
    \/ GetMessagesQuery(up)

FairSpec == Spec /\ WF_vars(Continue)

\* The server with the match listing and with requests of no identity.
ServerNext ==
  \/ Next
  \/ \E up \in BOOLEAN :
       \/ \E u \in Users : GetMatchesBegin(u, up)
       \/ GetMatchesUser(up)
  \/ \E kind \in Handlers : Unauthenticated(kind)

ServerSpec == Init /\ [][ServerNext]_vars

(***************************************************************************)
(* Storage calls that never answer                                         *)
(***************************************************************************)
\* The storage call a handler makes first.
FirstCall(kind) ==
  IF kind \in {"like", "pass"} THEN "likeRepo.Create"
  ELSE IF kind = "send" THEN "matchRepo.Exists"
  ELSE "matchRepo.GetByUserID"

\* The storage call a handler at pc makes next.
CallAt(pc) ==
  IF pc = "check" THEN "likeRepo.CheckMutualLike"
  ELSE IF pc = "exists" THEN "matchRepo.Exists"
  ELSE IF pc = "create" THEN "matchRepo.Create"
  ELSE IF pc = "insert" THEN "messageRepo.Create"
  ELSE "messageRepo.GetByMatchID"

\* A request arrives and its first storage call never answers. CreateLike
\* and CreatePass answer 400 to a self decision before any call; SendMessage
\* has no such check. The call is
\* db.QueryRow with no context, or a MongoDB call under the request's context,
\* which has no deadline: the goroutine waits in it.
NeverAnswersFirst(kind, userID, targetUserID) ==
  /\ CanArrive
  /\ kind \in {"like", "pass"} => userID # targetUserID
  /\ reqs' = Arrive(
       [NewReq EXCEPT !.kind = kind, !.actor = userID,
                      !.target = IF kind = "get" THEN NoUser ELSE targetUserID,
                      !.decision = IF kind \in {"like", "pass"} THEN kind ELSE "",
                      !.matchID = IF kind \in {"send", "get"} THEN 1 ELSE NilID,
                      !.pc = "waiting", !.last = FirstCall(kind)])
  /\ UNCHANGED <<likes, matches, messages>>

\* The next storage call of a request under way never answers.
NeverAnswers ==
  \E req \in Reqs :
    /\ req.pc \in {"check", "exists", "create", "insert", "query"}
    /\ reqs' = Step(req, [req EXCEPT !.pc = "waiting", !.last = CallAt(req.pc)])
    /\ UNCHANGED <<likes, matches, messages>>

\* The server on a store whose calls answer, fail, or never answer.
StallNext ==
  \/ Next
  \/ \E kind \in {"like", "pass", "send", "get"}, u \in Users, t \in Users :
       NeverAnswersFirst(kind, u, t)
  \/ NeverAnswers

\* Every call that answers lets its handler go on; nothing in the handlers,
\* the repositories or the http.Server ends a call that does not.
StallSpec == Init /\ [][StallNext]_vars /\ WF_vars(Continue)

(***************************************************************************)
(* Vocabulary of the properties                                            *)
(***************************************************************************)
\* The Match rows whose member set is {a, b}.
MatchRowsFor(a, b) == {m \in matches : {m.user1_id, m.user2_id} = {a, b}}

\* Preference(a -> b) exists with decision like.
HasLike(a, b) ==
  \E l \in likes : l.user_id = a /\ l.target_user_id = b /\ l.status = "like"

\* The CreateLike requests of a toward b with status like.
LikeReqs(a, b) ==
  {req \in Reqs : /\ req.kind = "like" /\ req.decision = "like"
                  /\ req.actor = a /\ req.target = b}

\* The request was answered.
Returned(req) == req.pc = "done"

\* The request's last storage call failed for a reason of the store itself.
StorageFailed(req) == req.err = "unavailable"

\* A like request that recorded its like and came back with no storage failure.
LikedCleanly(req) == Returned(req) /\ req.code = 201 /\ ~StorageFailed(req)

\* The response a one-sided like gets: 201, matched=false, no match attached.
PendingResponse(req) ==
  req.code = 201 /\ ~req.matched /\ req.respMatch = NoMatch

(***************************************************************************)
(* C1..C10                                                                 *)
(***************************************************************************)
\* C1: in every reachable state at most one Match row exists for each
\* unordered pair of users, whatever the interleaving of CreateLike requests.
C1_AtMostOneMatchPerPair ==
  \A a \in Users, b \in Users : Cardinality(MatchRowsFor(a, b)) <= 1

\* C1 witness: two requests raced into matchRepo.Create for one pair; one
\* inserted the row and the other was refused by the unique constraint.
C1_Witness ==
  \E r1 \in Reqs, r2 \in Reqs :
    /\ r1.kind = "like" /\ r2.kind = "like"
    /\ r1.actor = r2.target /\ r1.target = r2.actor
    /\ Returned(r1) /\ r1.matched
    /\ Returned(r2) /\ r2.err = "ErrMatchAlreadyExists"
    /\ Cardinality(MatchRowsFor(r1.actor, r1.target)) = 1

\* C2 as claimed, in the interleavings where both requests stored their like
\* before either looked for the other's: when like requests a -> b and
\* b -> a both recorded their like, both found the reciprocal like and both
\* returned with no storage failure, both responses have matched=true and
\* exactly one Match for {a, b} exists.
C2_BothMatched ==
  \A a \in Users, b \in Users :
    \A r1 \in LikeReqs(a, b), r2 \in LikeReqs(b, a) :
      (/\ LikedCleanly(r1) /\ LikedCleanly(r2)
       /\ r1.mutualLike /\ r2.mutualLike)
        => /\ r1.matched /\ r2.matched
           /\ Cardinality(MatchRowsFor(a, b)) = 1

\* C3 as claimed: among the callers of matchRepo.Create for one pair that
\* the store answered, exactly one observes the creation and every caller,
\* the others included, holds the Match row of the pair.
C3_EveryCallerHoldsTheMatch ==
  \A a \in Users, b \in Users :
    LET callers == {req \in Reqs : /\ req.kind = "like"
                                   /\ {req.actor, req.target} = {a, b}
                                   /\ req.last = "matchRepo.Create"
                                   /\ ~StorageFailed(req)}
    IN callers # {} =>
         /\ Cardinality({c \in callers : c.err = "nil"}) = 1
         /\ \A c \in callers : c.match \in MatchRowsFor(a, b)

\* C4 as claimed: a CreateLike whose CheckMutualLike failed is not answered
\* with the response of a one-sided like.
C4_MutualCheckFailureIsDistinct ==
  \A req \in Reqs :
    (/\ req.kind = "like" /\ Returned(req)
     /\ req.last = "likeRepo.CheckMutualLike" /\ StorageFailed(req))
      => ~PendingResponse(req)

\* C5 as claimed: a CreateLike whose matchRepo.Exists or matchRepo.Create
\* failed in the store answers 500 and never the response of a one-sided like.
C5_MatchStoreFailureIsSurfaced ==
  \A req \in Reqs :
    (/\ req.kind = "like" /\ Returned(req)
     /\ req.last \in {"matchRepo.Exists", "matchRepo.Create"}
     /\ StorageFailed(req))
      => req.code = 500 /\ ~PendingResponse(req)

\* C6 as claimed: a CreateLike that recorded its like, found the reciprocal
\* like and found the Match already there answers matched=true with that
\* Match, and there is still one Match for the pair.
C6_ExistingMatchIsReported ==
  \A req \in Reqs :
    (/\ req.kind = "like" /\ Returned(req)
     /\ req.last = "matchRepo.Exists" /\ req.err = "nil" /\ req.matchExists)
      => /\ req.matched
         /\ req.respMatch \in MatchRowsFor(req.actor, req.target)
         /\ Cardinality(MatchRowsFor(req.actor, req.target)) = 1

\* C7: every Match row's two members like each other; and a like request
\* that found no reciprocal like is answered 201 with matched=false and no
\* match, having made no call that writes the matches table.
C7_MatchImpliesMutualLikes ==
  /\ \A m \in matches : HasLike(m.user1_id, m.user2_id) /\ HasLike(m.user2_id, m.user1_id)
  /\ \A req \in Reqs :
       (/\ req.kind = "like" /\ req.decision = "like"
        /\ req.last = "likeRepo.CheckMutualLike" /\ req.err = "nil"
        /\ ~req.mutualLike)
         => /\ Returned(req) /\ PendingResponse(req)
            /\ req.match = NoMatch

\* C7 witness: on a new database UserA's like found no reciprocal like and
\* was answered matched=false; then UserB's like made the match.
C7_Witness ==
  \E r1 \in LikeReqs(UserA, UserB), r2 \in LikeReqs(UserB, UserA) :
    /\ Returned(r1) /\ r1.last = "likeRepo.CheckMutualLike" /\ ~r1.mutualLike
    /\ PendingResponse(r1)
    /\ Returned(r2) /\ r2.matched
    /\ r2.respMatch \in matches

\* C8: when like requests a -> b and b -> a both recorded their like and
\* returned with no storage failure, a Match for {a, b} exists.
C8_NoLostMatch ==
  \A a \in Users, b \in Users :
    ((\E r1 \in LikeReqs(a, b) : LikedCleanly(r1))
     /\ (\E r2 \in LikeReqs(b, a) : LikedCleanly(r2)))
      => MatchRowsFor(a, b) # {}

\* C8 witness: UserC looked for UserA's like before it was stored, UserA
\* found UserC's, both have returned, and the Match is there.
C8_Witness ==
  \E r1 \in LikeReqs(UserC, UserA), r2 \in LikeReqs(UserA, UserC) :
    /\ LikedCleanly(r1) /\ LikedCleanly(r2)
    /\ ~r1.mutualLike /\ r2.mutualLike
    /\ MatchRowsFor(UserA, UserC) # {}

\* C9 as claimed: with no request in flight, two reciprocal likes never sit
\* in the store without their Match.
C9_NoMutualLikesWithoutMatch ==
  \A a \in Users, b \in Users :
    (/\ \A req \in Reqs : Returned(req)
     /\ HasLike(a, b) /\ HasLike(b, a))
      => MatchRowsFor(a, b) # {}

\* C10: for every pair (a, b) the gate of SendMessage, MatchRepo.Exists(a, b),
\* allows exactly when a Match row exists whose members are a and b, so it
\* denies every pair without two reciprocal likes; a SendMessage is refused
\* with 403 exactly when the gate answered false, and one that passed the
\* gate has its Match row.
C10_ChatGate ==
  /\ \A a \in Users, b \in Users :
       /\ MatchRepoExists(matches, a, b, TRUE).exists <=> MatchRowsFor(a, b) # {}
       /\ ~(HasLike(a, b) /\ HasLike(b, a)) => ~MatchRepoExists(matches, a, b, TRUE).exists
  /\ \A req \in Reqs :
       (req.kind = "send" /\ req.last = "matchRepo.Exists" /\ req.err = "nil")
         => /\ (req.code = 403) <=> ~req.matchExists
            /\ req.matchExists => MatchRowsFor(req.actor, req.target) # {}

\* C10 witness: UserB, the higher id, was let through to UserA, its match,
\* while UserA's one-sided like toward UserC opens no chat between them.
C10_Witness ==
  /\ \E req \in Reqs : /\ req.kind = "send" /\ req.pc = "insert"
                       /\ req.actor = UserB /\ req.target = UserA
  /\ HasLike(UserA, UserC) /\ ~HasLike(UserC, UserA)
  /\ ~MatchRepoExists(matches, UserA, UserC, TRUE).exists
  /\ ~MatchRepoExists(matches, UserC, UserA, TRUE).exists

(***************************************************************************)
(* C11..C20                                                                *)
(***************************************************************************)
\* The request records a step puts into the pool: the request that arrived in
\* the step, or the stepping request as the step left it.
Stepped == BagToSet(reqs' (-) reqs)

\* The number of requests in the pool that are in one of the states of S.
RECURSIVE ReqCount(_)
ReqCount(S) ==
  IF S = {} THEN 0
  ELSE LET r == CHOOSE x \in S : TRUE
       IN (IF BagIn(r, reqs) THEN CopiesIn(r, reqs) ELSE 0) + ReqCount(S \ {r})

\* The SendMessage requests whose messageRepo.Create stored their message.
StoredSends ==
  {req \in Reqs : /\ req.kind = "send"
                  /\ req.last = "messageRepo.Create" /\ req.err = "nil"}

\* C11: a SendMessage between two users with no Match row is answered 403, one
\* whose match lookup failed is answered 500, and in both cases the handler
\* returns there: the step leaves the messages as they were and the request
\* never reaches messageRepo.Create, so the persisted messages are exactly
\* those of the requests that were let through.
C11_NoMatchNoMessage ==
  /\ [](/\ Len(messages) = ReqCount(StoredSends)
        /\ \A req \in Reqs :
             (req.kind = "send" /\ req.last = "messageRepo.Create")
               => req.matchExists /\ req.code # 403)
  /\ [][\A req \in Stepped :
          (req.kind = "send" /\ req.last = "matchRepo.Exists")
            => /\ (req.err = "nil" /\ MatchRowsFor(req.actor, req.target) = {})
                    => Returned(req) /\ req.code = 403 /\ messages' = messages
               /\ req.err # "nil"
                    => Returned(req) /\ req.code = 500 /\ messages' = messages]_vars

\* C11 witness: UserA's message to UserC, with whom it has no match, was
\* refused with 403 and UserB's message to UserA, its match, ended at the
\* failed lookup; no message is stored.
C11_Witness ==
  /\ \E req \in Reqs : /\ req.kind = "send" /\ Returned(req) /\ req.code = 403
                       /\ req.actor = UserA /\ req.target = UserC
  /\ \E req \in Reqs : /\ req.kind = "send" /\ Returned(req) /\ req.code = 500
                       /\ req.last = "matchRepo.Exists" /\ StorageFailed(req)
                       /\ req.actor = UserB /\ req.target = UserA
  /\ MatchRowsFor(UserA, UserB) # {} /\ MatchRowsFor(UserA, UserC) = {}
  /\ messages = <<>>

\* u is one of the two members of the Match row of tbl whose id is matchID.
MemberOf(tbl, u, matchID) ==
  \E m \in tbl : m.id = matchID /\ u \in {m.user1_id, m.user2_id}

\* C12: a GetMessages for match id M goes on to the message store exactly when
\* the requester is a member of the Match row whose id is M, and is answered
\* 403 otherwise, whatever other matches the requester has; a request that
\* queried the message store or was answered 200 is one of a member, its
\* answer holds messages of M only, and a request answered 403 made no call
\* after matchRepo.GetByUserID.
C12_ReadGate ==
  /\ [](\A req \in Reqs :
          req.kind = "get"
            => /\ (\/ req.pc = "query" \/ req.last = "messageRepo.GetByMatchID"
                    \/ req.code = 200)
                    => MemberOf(matches, req.actor, req.matchID)
               /\ \A i \in 1..Len(req.respMessages) :
                    req.respMessages[i].match_id = req.matchID
               /\ req.code = 403
                    => /\ req.last = "matchRepo.GetByUserID"
                       /\ req.respMessages = <<>>)
  /\ [][\A req \in Stepped :
          (req.kind = "get" /\ req.last = "matchRepo.GetByUserID" /\ req.err = "nil")
            => IF MemberOf(matches, req.actor, req.matchID)
               THEN req.pc = "query"
               ELSE Returned(req) /\ req.code = 403]_vars

\* C12 witness: UserB, whose only match is with UserA, was refused the
\* messages of the match of UserA and UserC, and UserC was given them.
C12_Witness ==
  \E m \in MatchRowsFor(UserA, UserC) :
    /\ MatchRowsFor(UserA, UserB) # {}
    /\ \E req \in Reqs : /\ req.kind = "get" /\ req.actor = UserB
                         /\ req.matchID = m.id /\ req.code = 403
    /\ \E req \in Reqs : /\ req.kind = "get" /\ req.actor = UserC
                         /\ req.matchID = m.id /\ req.code = 200

\* C13: every persisted message carries the id of an existing Match row whose
\* two members are the message's sender and receiver, so no user stores a
\* message under the id of a match it is not a member of.
C13_MessageBelongsToItsMatch ==
  \A i \in 1..Len(messages) :
    \E m \in matches :
      /\ m.id = messages[i].match_id
      /\ {m.user1_id, m.user2_id} = {messages[i].sender_id, messages[i].receiver_id}

\* C14: in every reachable state the sender and the receiver of every
\* persisted message are two distinct users and the Match row of their pair,
\* with the lower id as user1_id and the higher as user2_id, exists.
C14_MessageBetweenMatchedUsers ==
  \A i \in 1..Len(messages) :
    LET s == messages[i].sender_id
        r == messages[i].receiver_id
    IN /\ s # r
       /\ \E m \in matches :
            /\ {m.user1_id, m.user2_id} = {s, r}
            /\ <<m.user1_id, m.user2_id>> = NormalizeOrder(s, r)
            /\ UuidLess(m.user1_id, m.user2_id)

\* C14 witness: UserC's message to UserA is stored, their match is the row
\* (UserA, UserC), and a message of UserA to UserB was stored before it.
C14_Witness ==
  /\ Len(messages) = 2
  /\ messages[1].sender_id = UserA /\ messages[1].receiver_id = UserB
  /\ messages[2].sender_id = UserC /\ messages[2].receiver_id = UserA
  /\ \E m \in matches : m.user1_id = UserA /\ m.user2_id = UserC

\* The CreateLike and CreatePass requests.
DecisionReqs == {req \in Reqs : req.kind \in {"like", "pass"}}

\* C15: a CreateLike or CreatePass whose target is the actor is answered 400
\* having made no storage call, the step that answers it leaves the likes,
\* the matches and the messages as they were, and no likes row (u, u) and no
\* matches row (u, u) exists in any reachable state.
C15_SelfDecisionRejected ==
  /\ [](/\ \A l \in likes : l.user_id # l.target_user_id
        /\ \A m \in matches : m.user1_id # m.user2_id
        /\ \A req \in DecisionReqs :
             req.actor = req.target
               => Returned(req) /\ req.code = 400 /\ req.last = "")
  /\ [][\A req \in Stepped :
          (req.kind \in {"like", "pass"} /\ req.actor = req.target)
            => UNCHANGED <<likes, matches, messages>>]_vars

\* C15 witness: UserA's like of itself and UserA's pass of itself were both
\* answered 400 and the database is the empty one they arrived on.
C15_Witness ==
  /\ \E req \in Reqs : /\ req.kind = "like" /\ req.decision = "like"
                       /\ req.actor = UserA /\ req.target = UserA /\ req.code = 400
  /\ \E req \in Reqs : /\ req.kind = "pass"
                       /\ req.actor = UserA /\ req.target = UserA /\ req.code = 400
  /\ likes = {} /\ matches = {} /\ messages = <<>>

\* The likes rows of a toward b.
LikeRowsFor(a, b) == {l \in likes : l.user_id = a /\ l.target_user_id = b}

\* C16: a CreateLike or CreatePass of an actor toward a target for which a
\* likes row already exists returns from likeRepo.Create, with 409 whenever
\* the store answered the INSERT, and with the likes table, the existing
\* row's status included, and the matches table as they were.
C16_SecondDecisionRefused ==
  [][\A req \in Stepped :
       (/\ req.kind \in {"like", "pass"} /\ req.last = "likeRepo.Create"
        /\ LikeRowsFor(req.actor, req.target) # {})
         => /\ Returned(req)
            /\ req.code \in {409, 500}
            /\ req.code = 500 <=> StorageFailed(req)
            /\ req.code = 409 <=> req.err = "ErrLikeAlreadyExists"
            /\ ~req.matched /\ req.respMatch = NoMatch
            /\ likes' = likes /\ matches' = matches]_vars

\* C16 witness: UserB passed UserC; UserB's later like of UserC was answered
\* 409 and the row still says pass.
C16_Witness ==
  /\ \E req \in Reqs : /\ req.kind = "pass" /\ req.code = 201
                       /\ req.actor = UserB /\ req.target = UserC
  /\ \E req \in Reqs : /\ req.kind = "like" /\ req.decision = "like"
                       /\ req.code = 409
                       /\ req.actor = UserB /\ req.target = UserC
  /\ LikeRowsFor(UserB, UserC)
       = {[user_id |-> UserB, target_user_id |-> UserC, status |-> "pass"]}

\* The decision requests of a toward b whose likeRepo.Create stored their row.
Recorded(a, b) ==
  {req \in DecisionReqs :
     /\ req.actor = a /\ req.target = b
     /\ \/ req.last = "likeRepo.Create" /\ req.err = "nil"
        \/ req.last \notin {"", "likeRepo.Create"}}

\* The decision requests of a toward b that likeRepo.Create refused as duplicates.
Conflicted(a, b) ==
  {req \in DecisionReqs :
     /\ req.actor = a /\ req.target = b
     /\ req.last = "likeRepo.Create" /\ req.err = "ErrLikeAlreadyExists"}

\* Some database the server starts on already holds a likes row of a toward b.
SeededLike(a, b) ==
  \E db \in StartDBs : \E l \in db.likes : l.user_id = a /\ l.target_user_id = b

\* C17: of the CreateLike and CreatePass requests of one actor toward one
\* target, in whatever order their INSERTs reach the table, at most one
\* records a row, and exactly one when the row was not there at the start;
\* the recording request does not fail, every other request the store
\* answered is refused with 409, and exactly one likes row of the pair exists.
C17_OneDecisionWins ==
  \A a \in Users, b \in Users :
    a # b =>
      LET rows     == Cardinality(LikeRowsFor(a, b))
          recorded == Recorded(a, b)
          winners  == ReqCount(recorded)
      IN /\ rows <= 1
         /\ winners <= 1
         /\ (rows = 1 /\ ~SeededLike(a, b)) => winners = 1
         /\ (recorded # {} \/ Conflicted(a, b) # {}) => rows = 1
         /\ \A req \in recorded : Returned(req) => req.code = 201
         /\ \A req \in DecisionReqs :
              (req.actor = a /\ req.target = b /\ req \notin recorded)
                => /\ Returned(req) /\ req.last = "likeRepo.Create"
                   /\ IF StorageFailed(req) THEN req.code = 500
                      ELSE req.code = 409 /\ req \in Conflicted(a, b)

\* C17 witness: a like and a pass of UserB toward UserC met at the table; the
\* like's INSERT came first, the pass was refused with 409, and one row is
\* stored.
C17_Witness ==
  /\ \E req \in Recorded(UserB, UserC) : req.kind = "like" /\ req.decision = "like"
  /\ \E req \in Conflicted(UserB, UserC) : req.kind = "pass" /\ req.code = 409
  /\ Cardinality(LikeRowsFor(UserB, UserC)) = 1

\* Preference(a -> b) exists with decision pass.
HasPass(a, b) ==
  \E l \in likes : l.user_id = a /\ l.target_user_id = b /\ l.status = "pass"

\* C18: once a's recorded decision toward b is pass it stays pass, and in
\* every state in which it is recorded no Match row of {a, b} exists, no
\* CreateLike of either toward the other has found a mutual like or is on its
\* way to matchRepo.Create, and every decision request between the two, in
\* either direction, has matched=false and no match attached.
C18_PassBlocksMatch ==
  /\ [](\A a \in Users, b \in Users :
          HasPass(a, b)
            => /\ MatchRowsFor(a, b) = {}
               /\ \A req \in DecisionReqs :
                    {req.actor, req.target} = {a, b}
                      => /\ ~req.matched /\ req.respMatch = NoMatch
                         /\ ~req.mutualLike
                         /\ req.pc \notin {"exists", "create"})
  /\ [][\A a \in Users, b \in Users : HasPass(a, b) => HasPass(a, b)']_vars

\* C18 witness: UserA passed UserB through CreatePass, UserB then liked
\* UserA and was answered 201 with matched=false, and they have no match.
C18_Witness ==
  /\ \E req \in Reqs : /\ req.kind = "pass" /\ req.code = 201
                       /\ req.actor = UserA /\ req.target = UserB
  /\ \E req \in LikeReqs(UserB, UserA) :
       /\ Returned(req) /\ PendingResponse(req)
       /\ req.last = "likeRepo.CheckMutualLike" /\ ~StorageFailed(req)
  /\ HasPass(UserA, UserB) /\ HasLike(UserB, UserA)
  /\ MatchRowsFor(UserA, UserB) = {}

\* The match listing of user u: what MatchRepo.GetByUserID answers.
MatchListing(u) == MatchRepoGetByUserID(matches, u, TRUE).list

\* The number of entries of list that are m.
Occurrences(list, m) == Cardinality({i \in 1..Len(list) : list[i] = m})

\* r1 and r2 are likes of a toward b and of b toward a that ran one after the
\* other with no storage failure: r1 recorded its like, found no like back
\* and returned, which is its last storage call, so r2's INSERT came after it.
LikedInTurn(r1, r2) ==
  /\ LikedCleanly(r1) /\ r1.last = "likeRepo.CheckMutualLike" /\ ~r1.mutualLike
  /\ LikedCleanly(r2)

\* C19: when a's like toward b completed before b's like toward a began and
\* no storage call failed, b's response has matched=true with the Match row
\* of the pair attached, and the match listing of a and the match listing of
\* b each hold that row exactly once.
C19_SecondLikeMatches ==
  \A a \in Users, b \in Users :
    \A r1 \in LikeReqs(a, b), r2 \in LikeReqs(b, a) :
      LikedInTurn(r1, r2)
        => /\ r2.matched
           /\ r2.respMatch \in MatchRowsFor(a, b)
           /\ Occurrences(MatchListing(a), r2.respMatch) = 1
           /\ Occurrences(MatchListing(b), r2.respMatch) = 1

\* C19 witness: on the database in which UserA and UserB are matched, UserC
\* liked UserA and returned, UserA then liked UserC and was answered
\* matched=true; UserA's listing holds the new match and the older one.
C19_Witness ==
  \E r1 \in LikeReqs(UserC, UserA), r2 \in LikeReqs(UserA, UserC) :
    /\ LikedInTurn(r1, r2)
    /\ r2.matched /\ r2.last = "matchRepo.Create"
    /\ MatchListing(UserA) = <<r2.respMatch>> \o ByCreatedAtDesc(MatchRowsFor(UserA, UserB))
    /\ MatchListing(UserC) = <<r2.respMatch>>
    /\ Len(MatchListing(UserA)) = 2

\* The swap maps both orders of two distinct identities to one pair of the two.
SwapIsSymmetric ==
  \A a \in Users \cup OtherIDs, b \in Users \cup OtherIDs :
    a # b => /\ NormalizeOrder(a, b) = NormalizeOrder(b, a)
             /\ NormalizeOrder(a, b) \in {<<a, b>>, <<b, a>>}

\* The pairs of distinct users, each once.
UserPairs == {p \in Users \X Users : UuidLess(p[1], p[2])}

\* C20: for all distinct identities a and b the swap maps (a, b) and (b, a)
\* to the same pair, which holds a and b; in every state MatchRepo.Exists
\* answers the same for (a, b) and (b, a), with the store up or down, and
\* MatchRepo.Create called with (a, b) or with (b, a) answers the same and
\* leaves the same table, in which Exists finds the pair in either order
\* whenever Create stored the row or reported it as already there; the row
\* a CreateLike stored is found by Exists in either order.
C20_CanonicalPair ==
  /\ SwapIsSymmetric
  /\ \A p \in UserPairs :
       LET a    == p[1]
           b    == p[2]
           ab   == MatchRepoExists(matches, a, b, TRUE)
           ba   == MatchRepoExists(matches, b, a, TRUE)
           res  == MatchRepoCreate(matches, a, b, TRUE)
           res2 == MatchRepoCreate(matches, b, a, TRUE)
       IN /\ ab = ba
          /\ MatchRepoExists(matches, a, b, FALSE) = MatchRepoExists(matches, b, a, FALSE)
          /\ res = res2
          /\ res.err \in {"nil", "ErrMatchAlreadyExists"}
          /\ res.err = "nil" <=> ~ba.exists
          /\ MatchRepoExists(res.rows, a, b, TRUE).exists
          /\ MatchRepoExists(res2.rows, b, a, TRUE).exists
  /\ \A req \in Reqs :
       (req.kind = "like" /\ req.last = "matchRepo.Create" /\ req.err = "nil")
         => /\ MatchRepoExists(matches, req.actor, req.target, TRUE).exists
            /\ MatchRepoExists(matches, req.target, req.actor, TRUE).exists

\* C20 witness: UserC, the higher id, made the match with UserA by
\* Create(UserC, UserA); the row is (UserA, UserC) and Exists finds it in
\* both orders.
C20_Witness ==
  /\ \E req \in LikeReqs(UserC, UserA) :
       /\ req.last = "matchRepo.Create" /\ req.err = "nil"
       /\ req.match.user1_id = UserA /\ req.match.user2_id = UserC
       /\ req.match \in matches
  /\ NormalizeOrder(UserC, UserA) = <<UserA, UserC>>
  /\ MatchRepoExists(matches, UserA, UserC, TRUE).exists
  /\ MatchRepoExists(matches, UserC, UserA, TRUE).exists

(***************************************************************************)
(* C21..C30                                                                *)
(***************************************************************************)
\* The pair the swap makes of two distinct identities is in the order of the
\* table's CHECK: the order on the String() forms is the order on the bytes.
SwapAgreesWithCheck ==
  \A a \in Users \cup OtherIDs, b \in Users \cup OtherIDs :
    a # b => UuidLess(NormalizeOrder(a, b)[1], NormalizeOrder(a, b)[2])

\* C21: every stored Match row has user1_id < user2_id in the order of the
\* table's CHECK, which the swap of MatchRepo.Create agrees with; no row has
\* one user as both members, and MatchRepo.Create for a user and itself
\* fails and leaves the table as it was.
C21_LowBeforeHigh ==
  /\ SwapAgreesWithCheck
  /\ \A m \in matches : UuidLess(m.user1_id, m.user2_id) /\ m.user1_id # m.user2_id
  /\ \A u \in Users :
       LET res == MatchRepoCreate(matches, u, u, TRUE)
       IN res.err = "matches_check" /\ res.rows = matches /\ res.match.id = NilID

\* C21 witness: UserC, the higher id, made the match with UserA; it is stored
\* as (UserA, UserC) beside the row (UserA, UserB).
C21_Witness ==
  /\ \E req \in Reqs : /\ req.kind = "like" /\ req.actor = UserC /\ req.target = UserA
                       /\ req.last = "matchRepo.Create" /\ req.err = "nil"
  /\ {<<m.user1_id, m.user2_id>> : m \in matches} = {<<UserA, UserB>>, <<UserA, UserC>>}

\* The Match rows of which u is a member.
MatchRowsOf(u) == {m \in matches : u \in {m.user1_id, m.user2_id}}

\* C22: in every state, for every user, MatchRepo.GetByUserID answers the
\* stored Match rows of which the user is the low or the high member and no
\* other row, each once, a newer row before an older one; the handler step
\* that makes the call leaves the likes, the matches and the messages as
\* they were.
C22_ListingIsExact ==
  /\ [](\A u \in Users :
          LET list == MatchListing(u)
          IN /\ {list[i] : i \in 1..Len(list)} = MatchRowsOf(u)
             /\ Len(list) = Cardinality(MatchRowsOf(u))
             /\ \A i \in 1..Len(list), j \in 1..Len(list) :
                  i < j => list[i].created_at >= list[j].created_at)
  /\ [][\A req \in Stepped :
          req.last = "matchRepo.GetByUserID"
            => UNCHANGED <<likes, matches, messages>>]_vars

\* C22 witness: GetMatches of UserA got its two matches from
\* MatchRepo.GetByUserID, the one with UserC, made later, first; UserB's
\* listing holds the one match of UserB.
C22_Witness ==
  /\ \E req \in Reqs :
       /\ req.kind = "matches" /\ req.actor = UserA /\ req.pc = "user"
       /\ req.todo = MatchListing(UserA)
       /\ Len(req.todo) = 2
       /\ {req.todo[1].user1_id, req.todo[1].user2_id} = {UserA, UserC}
       /\ {req.todo[2].user1_id, req.todo[2].user2_id} = {UserA, UserB}
       /\ req.todo[1].created_at > req.todo[2].created_at
  /\ Len(MatchListing(UserB)) = 1

\* What a chat request that made the storage call req.last is left with, as
\* the Match rows, the messages and the call's own error decide it: the
\* position in the handler, the status code and the lists of messages the
\* response may hold.
ChatOutcome(req) ==
  IF req.err # "nil" THEN [pc |-> "done", code |-> 500, lists |-> {<<>>}]
  ELSE IF req.last = "matchRepo.Exists"
    THEN IF MatchRowsFor(req.actor, req.target) = {}
         THEN [pc |-> "done", code |-> 403, lists |-> {<<>>}]
         ELSE [pc |-> "insert", code |-> 0, lists |-> {<<>>}]
  ELSE IF req.last = "matchRepo.GetByUserID"
    THEN IF ~MemberOf(matches, req.actor, req.matchID)
         THEN [pc |-> "done", code |-> 403, lists |-> {<<>>}]
         ELSE [pc |-> "query", code |-> 0, lists |-> {<<>>}]
  ELSE IF req.last = "messageRepo.Create"
    THEN [pc |-> "done", code |-> 201, lists |-> {<<>>}]
  ELSE [pc |-> "done", code |-> 200,
        lists |-> {res.list :
                     res \in MessageRepoGetByMatchID(messages, req.matchID, TRUE)}]

\* C23: what SendMessage and GetMessages answer is a function of the request,
\* the Match rows, the messages and the storage call's own error, and of
\* nothing else: two states with the same Match rows and messages give the
\* same request the same response whatever likes rows each holds, and no
\* field of the response is taken from the likes table.
C23_ChatIgnoresLikes ==
  [][\A req \in Stepped :
       req.kind \in {"send", "get"} /\ req.last # ""
         => /\ <<req.pc, req.code>> = <<ChatOutcome(req).pc, ChatOutcome(req).code>>
            /\ req.respMessages \in ChatOutcome(req).lists
            /\ ~req.mutualLike /\ ~req.matched /\ req.respMatch = NoMatch
            /\ req.decision = ""]_vars

\* C23 witness: UserA likes UserC and UserC has not liked back; UserC's
\* message to UserA was refused with 403, as it is with no like on record.
C23_Witness ==
  /\ HasLike(UserA, UserC) /\ ~HasLike(UserC, UserA)
  /\ \E req \in Reqs : /\ req.kind = "send" /\ req.code = 403
                       /\ req.actor = UserC /\ req.target = UserA
  /\ MatchRowsFor(UserA, UserC) = {}

\* C24: a request whose storage call never answers still completes, with the
\* storage-unavailable outcome (500), instead of waiting in the call.
C24_NoOperationHangs ==
  \A kind \in {"like", "pass", "send", "get"} :
    (\E req \in Reqs : req.kind = kind /\ req.pc = "waiting")
      ~> (\A req \in Reqs : req.kind = kind => Returned(req))

\* C25: every step of every operation keeps every likes row, every Match row
\* and every message as it is, adds at most one likes row, at most one Match
\* row and at most one message, and the handler that added a Match row or a
\* message has returned with that step, as the handler that added a likes
\* row made the call as its first, so no operation adds a second; GetMatches
\* and GetMessages add nothing.
C25_AppendOnly ==
  [][/\ likes \subseteq likes' /\ Cardinality(likes' \ likes) <= 1
     /\ matches \subseteq matches' /\ Cardinality(matches' \ matches) <= 1
     /\ Len(messages') \in {Len(messages), Len(messages) + 1}
     /\ SubSeq(messages', 1, Len(messages)) = messages
     /\ likes' # likes
          => /\ BagCardinality(reqs') = BagCardinality(reqs) + 1
             /\ \A req \in Stepped :
                  req.kind \in {"like", "pass"} /\ req.last = "likeRepo.Create"
     /\ matches' # matches
          => \A req \in Stepped :
               req.kind = "like" /\ req.last = "matchRepo.Create" /\ Returned(req)
     /\ messages' # messages
          => \A req \in Stepped :
               req.kind = "send" /\ req.last = "messageRepo.Create" /\ Returned(req)
     /\ \A req \in Stepped :
          req.kind \in {"get", "matches"} => UNCHANGED <<likes, matches, messages>>
    ]_vars

\* C25 witness: a message of UserB to UserA was stored and a GetMatches of
\* UserA then answered both of its matches; the likes and the matches are
\* those of the database the server started on.
C25_Witness ==
  /\ Len(messages) = 1 /\ messages[1].sender_id = UserB
  /\ \E req \in Reqs : /\ req.kind = "matches" /\ req.actor = UserA
                       /\ req.code = 200 /\ Len(req.respEntries) = 2
  /\ likes = TwoMatchesDB.likes /\ matches = TwoMatchesDB.matches

\* The documents of coll stored under match id m, in the order of insertion.
StoredUnder(coll, m) == SelectSeq(coll, LAMBDA d : d.match_id = m)

\* list holds the documents of docs, each as many times as docs does.
SameDocuments(list, docs) ==
  /\ Len(list) = Len(docs)
  /\ \A i \in 1..Len(docs) :
       Cardinality({j \in 1..Len(list) : list[j] = docs[i]})
         = Cardinality({j \in 1..Len(docs) : docs[j] = docs[i]})

\* list is in non-decreasing order of created_at.
OldestFirst(list) ==
  \A i \in 1..Len(list), j \in 1..Len(list) :
    i < j => list[i].created_at <= list[j].created_at

\* C26: every SendMessage answered 201 has its message in the store under
\* the match id it named; in every state every answer MessageRepo.GetByMatchID(M)
\* may give holds the documents stored under M, all of them and no other,
\* oldest first; and
\* a GetMessages that reached the message store with the store answering is
\* answered 200 with that list, the empty list when nothing is stored under M.
C26_SendThenRead ==
  /\ [](/\ \A req \in StoredSends :
             /\ req.code = 201
             /\ \E i \in 1..Len(messages) :
                  /\ messages[i].match_id = req.matchID
                  /\ messages[i].sender_id = req.actor
                  /\ messages[i].receiver_id = req.target
        /\ \A m \in MatchIDs :
             \A res \in MessageRepoGetByMatchID(messages, m, TRUE) :
               /\ SameDocuments(res.list, StoredUnder(messages, m))
               /\ OldestFirst(res.list))
  /\ [][\A req \in Stepped :
          (req.kind = "get" /\ req.last = "messageRepo.GetByMatchID" /\ req.err = "nil")
            => /\ Returned(req) /\ req.code = 200
               /\ SameDocuments(req.respMessages, StoredUnder(messages, req.matchID))
               /\ OldestFirst(req.respMessages)]_vars

\* C27: a request with no authenticated identity is answered 401 by each of
\* the five handlers having made no storage call, and the step leaves the
\* likes, the matches and the messages as they were; no request with an
\* identity is answered 401.
C27_Unauthenticated401 ==
  /\ [](\A req \in Reqs :
          /\ req.kind \in Handlers
          /\ req.actor = NoUser
               => Returned(req) /\ req.code = 401 /\ req.last = ""
          /\ req.code = 401 => req.actor = NoUser)
  /\ [][\A req \in Stepped :
          req.actor = NoUser => UNCHANGED <<likes, matches, messages>>]_vars

\* C27 witness: a CreateLike and a GetMatches with no identity were both
\* answered 401 on the database with two matches, which is as it was.
C27_Witness ==
  /\ \E req \in Reqs : req.kind = "like" /\ req.actor = NoUser /\ req.code = 401
  /\ \E req \in Reqs : req.kind = "matches" /\ req.actor = NoUser /\ req.code = 401
  /\ likes = TwoMatchesDB.likes /\ matches = TwoMatchesDB.matches /\ messages = <<>>

\* The CreateLike requests between a and b, in either direction.
LikesBetween(a, b) ==
  {req \in Reqs : req.kind = "like" /\ {req.actor, req.target} = {a, b}}

\* C28: among the CreateLike responses of a pair at most one reports
\* matched=true, and it is the request whose MatchRepo.Create inserted the
\* row; a request that found the match present or lost the insert reports
\* matched=false; when both users' likes came back with no storage failure,
\* exactly one of the responses reports matched=true.
C28_OneMatchedResponse ==
  \A p \in UserPairs :
    LET between == LikesBetween(p[1], p[2])
        winners == {req \in between : req.matched}
    IN /\ ReqCount(winners) <= 1
       /\ \A req \in winners :
            /\ Returned(req)
            /\ req.last = "matchRepo.Create" /\ req.err = "nil"
            /\ req.match \in MatchRowsFor(p[1], p[2])
       /\ \A req \in between :
            req.matchExists \/ req.err = "ErrMatchAlreadyExists" => ~req.matched
       /\ \A ra \in LikeReqs(p[1], p[2]), rb \in LikeReqs(p[2], p[1]) :
            LikedCleanly(ra) /\ LikedCleanly(rb) => ReqCount(winners) = 1

\* C28 witness: two concurrent likes of a pair both reached MatchRepo.Create;
\* one inserted the row and reports matched=true, the other lost the insert
\* and reports matched=false.
C28_Witness ==
  \E ra \in LikeReqs(UserA, UserB), rb \in LikeReqs(UserB, UserA) :
    /\ LikedCleanly(ra) /\ LikedCleanly(rb)
    /\ ra.last = "matchRepo.Create" /\ rb.last = "matchRepo.Create"
    /\ ra.matched # rb.matched
    /\ "ErrMatchAlreadyExists" \in {ra.err, rb.err}

\* C29: a CreateLike response with matched=true attaches a match that is a
\* stored row, whose members are the actor and the target with the low one
\* first whichever of them acted, and the actor's like is stored; a response
\* with matched=false attaches no match.
C29_ResponseIsSound ==
  \A req \in Reqs :
    req.kind = "like" /\ Returned(req) =>
      IF req.matched
      THEN /\ req.code = 201
           /\ req.respMatch \in matches
           /\ {req.respMatch.user1_id, req.respMatch.user2_id}
                = {req.actor, req.target}
           /\ UuidLess(req.respMatch.user1_id, req.respMatch.user2_id)
           /\ HasLike(req.actor, req.target)
      ELSE req.respMatch = NoMatch

\* C29 witness: the high member of a pair liked the low one and was answered
\* matched=true with the stored row, in which the target comes first; the
\* low member's earlier like was answered matched=false with nothing attached.
C29_Witness ==
  \E ra \in LikeReqs(UserA, UserB), rb \in LikeReqs(UserB, UserA) :
    /\ Returned(ra) /\ ra.code = 201 /\ ~ra.matched /\ ra.respMatch = NoMatch
    /\ Returned(rb) /\ rb.matched
    /\ rb.respMatch \in matches
    /\ rb.respMatch.user1_id = UserA /\ rb.respMatch.user2_id = UserB

\* C30: a GetMatches answered 200 holds one entry for each match that
\* MatchRepo.GetByUserID listed for the requester, in the listing's order,
\* none left out and none twice; the matched user of an entry is the other
\* member of its match and never the requester; an empty listing gives an
\* empty list.
C30_OneEntryPerMatch ==
  \A req \in Reqs :
    req.kind = "matches" /\ Returned(req) /\ req.code = 200 =>
      /\ Len(req.respEntries) = Len(req.list)
      /\ \A i \in 1..Len(req.respEntries) :
           /\ i <= Len(req.list)
           /\ req.respEntries[i].id = req.list[i].id
           /\ req.respEntries[i].matched_user
                = MatchedUserID(req.list[i], req.actor)
           /\ req.respEntries[i].matched_user # req.actor
      /\ \A i \in 1..Len(req.list) : req.list[i] \in MatchRowsOf(req.actor)

====
